---- MODULE Spec2Model ----
(***************************************************************************)
(* A model of FloatingClock (src/clock.py): the configuration store, the   *)
(* countdown timer, the window geometry and the run loop's periodic timers.*)
(*                                                                         *)
(* Units.  Python floats are modelled by integers:                         *)
(*   - scale in hundredths (1.0 is 100, SCALE_STEP 0.25 is 25);            *)
(*   - colour components in thousandths (0.55 is 550);                     *)
(*   - window coordinates in half points (x2 = 2 * x), so that the centre  *)
(*     origin + size / 2 of an odd-sized window is exact;                  *)
(*   - window sizes in points (they are Python ints in the source).        *)
(***************************************************************************)
EXTENDS Integers, Sequences, FiniteSets, TLC

(***************************************************************************)
(* Bounds of the model.                                                    *)
(***************************************************************************)
\* Longest countdown a start request asks for (the presets of the source,
\* 900 .. 10800 seconds, are scaled down to 1 .. MaxDur).
MaxDur == 3
\* Number of user events (menu actions, mouse events) in one session of
\* SpecConfig.
MaxEvents == 4
\* Size of the main screen, in points.
ScreenW == 1440
ScreenH == 900
\* Bytes the network sends in one behaviour of SpecMetrics.
MaxBytes == 2

(***************************************************************************)
(* Program constants (src/clock.py lines 51-60).                           *)
(***************************************************************************)
BASE_FONT == 48
BASE_WIDTH == 380
BASE_HEIGHT == 80
BASE_RADIUS == 12
SUBTEXT_FONT_RATIO == 35
PADDING == 20
MIN_SCALE == 50
MAX_SCALE == 400
SCALE_STEP == 25

Max(a, b) == IF a >= b THEN a ELSE b
Min(a, b) == IF a <= b THEN a ELSE b

(***************************************************************************)
(* Python values held by the configuration dict.  Every value is a record  *)
(* [t, v]: t is the Python type, v the payload as a sequence of integers.  *)
(***************************************************************************)
PyNone == [t |-> "None", v |-> <<>>]
PyBool(b) == [t |-> "bool", v |-> <<IF b THEN 1 ELSE 0>>]
PyNum(n) == [t |-> "num", v |-> <<n>>]
PyList(s) == [t |-> "list", v |-> s]
\* Strings are named by a code: 1 "small", 2 "medium", 3 "large", 4 any other.
PyStr(code) == [t |-> "str", v |-> <<code>>]

\* Python truthiness: bool(value).
Truthy(pv) ==
    CASE pv.t = "None" -> FALSE
      [] pv.t = "bool" -> pv.v[1] = 1
      [] pv.t = "num" -> pv.v[1] # 0
      [] pv.t = "list" -> Len(pv.v) > 0
      [] OTHER -> TRUE

\* dict.get(key, default)
Get(cfg, key, default) == IF key \in DOMAIN cfg THEN cfg[key] ELSE default

DefaultKeys ==
    {"scale", "bg_color", "fg_color", "position", "show_seconds",
     "show_time_subtext", "show_network_stats", "show_cpu", "show_mem",
     "show_gpu"}

DEFAULT_CONFIG ==
    [k \in DefaultKeys |->
        CASE k = "scale" -> PyNum(100)
          [] k = "bg_color" -> PyList(<<0, 0, 0, 550>>)
          [] k = "fg_color" -> PyList(<<1000, 1000, 1000, 1000>>)
          [] k = "position" -> PyNone
          [] k = "show_seconds" -> PyBool(TRUE)
          [] k = "show_time_subtext" -> PyBool(TRUE)
          [] OTHER -> PyBool(FALSE)]

BG_PRESETS(name) ==
    CASE name = "Dark" -> <<0, 0, 0, 550>>
      [] name = "Light" -> <<1000, 1000, 1000, 550>>
      [] name = "Transparent" -> <<0, 0, 0, 0>>

FG_PRESETS(name) ==
    CASE name = "White" -> <<1000, 1000, 1000, 1000>>
      [] name = "Black" -> <<0, 0, 0, 1000>>
      [] name = "Red" -> <<1000, 0, 0, 1000>>
      [] name = "Green" -> <<0, 1000, 0, 1000>>
      [] name = "Yellow" -> <<1000, 1000, 0, 1000>>
      [] name = "Cyan" -> <<0, 1000, 1000, 1000>>

(***************************************************************************)
(* The persisted document.  disk.kind is "missing" (no file), "garbage"    *)
(* (text json.load rejects), "empty" (a file of length zero), "cut" (a     *)
(* proper prefix of a document's text), "object" (a JSON object, whose     *)
(* members map each key to a JSON value [j, v]), or "array", "number",     *)
(* "string", "null" (a JSON text whose top-level value is not an object).  *)
(***************************************************************************)
NoMembers == [k \in {} |-> PyNone]

\* json.dump of one Python value
ToJson(pv) ==
    CASE pv.t = "None" -> [j |-> "null", v |-> <<>>]
      [] pv.t = "bool" -> [j |-> IF pv.v[1] = 1 THEN "true" ELSE "false", v |-> <<>>]
      [] pv.t = "num" -> [j |-> "number", v |-> pv.v]
      [] pv.t = "list" -> [j |-> "array", v |-> pv.v]
      [] pv.t = "str" -> [j |-> "string", v |-> pv.v]

\* json.load of one JSON value
FromJson(jv) ==
    CASE jv.j = "null" -> PyNone
      [] jv.j = "true" -> PyBool(TRUE)
      [] jv.j = "false" -> PyBool(FALSE)
      [] jv.j = "number" -> PyNum(jv.v[1])
      [] jv.j = "array" -> PyList(jv.v)
      [] jv.j = "string" -> PyStr(jv.v[1])

\* Mutation of SizeMapping: every legacy size gives the default scale.
SizeMapping_AlwaysDefault(pv) == PyNum(100)

\* mapping.get(size, 1.0) of load_config
SizeMapping(pv) ==
    IF pv.t = "str" /\ pv.v[1] = 1 THEN PyNum(50)
    ELSE IF pv.t = "str" /\ pv.v[1] = 2 THEN PyNum(100)
    ELSE IF pv.t = "str" /\ pv.v[1] = 3 THEN PyNum(150)
    ELSE PyNum(100)

\* load_config(): the dict read from the document d
load_config(d) ==
    LET cfg0 == IF d.kind = "object"
                THEN [k \in DOMAIN d.members |-> FromJson(d.members[k])]
                ELSE NoMembers
        cfg1 == IF "size" \in DOMAIN cfg0 /\ "scale" \notin DOMAIN cfg0
                THEN [k \in (DOMAIN cfg0 \ {"size"}) \cup {"scale"} |->
                        IF k = "scale" THEN SizeMapping(cfg0["size"]) ELSE cfg0[k]]
                ELSE cfg0
    IN  [k \in DOMAIN cfg1 \cup DefaultKeys |->
            IF k \in DOMAIN cfg1 THEN cfg1[k] ELSE DEFAULT_CONFIG[k]]

\* load_config(): the exception that leaves it on the document d, "none" when
\* it returns.  Only FileNotFoundError and JSONDecodeError are caught (an empty
\* or cut file is a JSONDecodeError).  On a number or null the test
\* '"size" in cfg' raises TypeError; on an array or a string (neither holding
\* "size") the test is False and cfg.setdefault raises AttributeError.
load_config_raises(d) ==
    CASE d.kind \in {"number", "null"} -> "TypeError"
      [] d.kind \in {"array", "string"} -> "AttributeError"
      [] OTHER -> "none"

\* save_config(cfg): the document on disk after a successful write
save_config(cfg) ==
    [kind |-> "object", members |-> [k \in DOMAIN cfg |-> ToJson(cfg[k])]]

\* How a call of save_config ends.  It writes the file in place:
\*   "written"      it returns, the new text is in the file;
\*   "openRaises"   os.makedirs or open raises OSError, the file is untouched;
\*   "writeRaises"  open has truncated the file, then json.dump or the close
\*                  raises OSError (a full disk), nothing reached the file;
\*   "killedBefore", "killedOpened", "killedWriting", "killedAfter"
\*                  the process dies before open, after open with nothing
\*                  flushed, with a part of the text flushed, after the close.
SaveRaises == {"openRaises", "writeRaises"}
SaveKilled == {"killedBefore", "killedOpened", "killedWriting", "killedAfter"}
SaveResults == {"written"} \cup SaveRaises \cup SaveKilled

\* save_config(cfg) on the document d when the call ends as r: "empty" is
\* the file left by open(CONFIG_FILE, "w") before anything is flushed to it,
\* "cut" the file left when only a part of the text reached it.
saved(d, cfg, r) ==
    CASE r \in {"written", "killedAfter"} -> save_config(cfg)
      [] r \in {"openRaises", "killedBefore"} -> d
      [] r \in {"writeRaises", "killedOpened"} -> [kind |-> "empty", members |-> NoMembers]
      [] r = "killedWriting" -> [kind |-> "cut", members |-> NoMembers]


(***************************************************************************)
(* State.                                                                  *)
(***************************************************************************)
VARIABLES
    config,         \* self._config: key -> Python value
    disk,           \* the file CONFIG_FILE
    timer,          \* self._timer_total, _timer_remaining, _timer_running,
                    \* _timer_active, _timer_finished and self._flash_on
    mainAlpha,      \* alpha value of self._mainLabel: 1 opaque, 0 invisible
    frame,          \* frame of self._window: [x2, y2, w, h]
    layout,         \* what _relayout last applied to the content view and labels
    menu,           \* the menu installed on self._statusItem
    dragOffset,     \* DraggableView._dragOffset: "None" or "set"
    mousePressed,   \* the mouse button is held down on the view
    tickCount,      \* self._tick_count modulo 3 (only this residue is ever read)
    lastBytes,      \* self._last_bytes_sent, self._last_bytes_recv
    netSpeed,       \* self._net_up_speed, self._net_down_speed, which are also
                    \* the two rates written to self._netLabel
    gpuPct,         \* self._gpu_pct: <<>> for None, <<n>> for the int n
    sysLabel,       \* the parts joined into the text of self._sysLabel
    proc,           \* the process: "running", "failedToStart" (main raised
                    \* before app.run) or "killed"
    raised,         \* the exception that left the latest callback, or start-up;
                    \* "none" when it returned
    netCounters,    \* psutil.net_io_counters(): the cumulative bytes sent and
                    \* received, kept by the operating system
    phase,          \* half seconds elapsed since the last whole second: 0 or 1
    dueSec,         \* the 1.0 s NSTimer of setupWindow is due
    dueHalf,        \* the 0.5 s NSTimer of main is due
    prevTimer,      \* history: timer before the latest timer event
    prevAlpha,      \* history: mainAlpha before the latest timer event
    requested,      \* history: seconds asked by the latest timer event when it
                    \* is a start request with a valid duration, else 0
    lastTimerEvent, \* history: the latest timer event
    typed,          \* history: the text of the latest event when it is a
                    \* typed start request of a session (the sequence of its
                    \* fields), else <<>>
    sinceStart,     \* history: ticks since the latest start, -1 once a pause,
                    \* a reset or a tick after the finish intervened
    periodTicks,    \* history: calls of tick() since the last whole second
    nEvents,        \* history: user events handled so far in a session
    lastUserEvent,  \* history: the latest user event of a session
    lastWrite,      \* history: how save_config ended in the latest user event,
                    \* "none" when that event did not call it
    reads,          \* history: what the metric sources answered in the latest
                    \* tick
    updated,        \* history: the metric families whose text the latest tick
                    \* wrote: a subset of {"net", "cpumem", "gpu"}
    lastQuery,      \* history: the result of the latest call of
                    \* read_gpu_utilization, <<>> before the first
    gpuQuiet,       \* history: ticks without a GPU query since the latest
                    \* query, counted up to 2
    gpuGap,         \* history: gpuQuiet as it was when the latest query was made
    tickBytes       \* history: netCounters as they were at the latest tick

timerVars == <<timer, mainAlpha>>
dragVars == <<dragOffset, mousePressed>>
sampleVars == <<tickCount, lastBytes, netSpeed, gpuPct, sysLabel>>
timerGhost == <<prevTimer, prevAlpha, requested, lastTimerEvent, sinceStart>>
userGhost == <<nEvents, lastUserEvent, lastWrite>>
tickGhost == <<reads, updated, lastQuery, gpuQuiet, gpuGap, tickBytes>>
ghostVars == <<prevTimer, prevAlpha, requested, lastTimerEvent, typed,
              sinceStart, periodTicks, nEvents, lastUserEvent, lastWrite, reads, updated,
              lastQuery, gpuQuiet, gpuGap, tickBytes>>
vars == <<config, disk, timer, mainAlpha, frame, layout, menu, dragOffset,
          mousePressed, tickCount, lastBytes, netSpeed, gpuPct, sysLabel, proc,
          raised, netCounters, phase, dueSec, dueHalf, prevTimer, prevAlpha,
          requested, lastTimerEvent, typed, sinceStart, periodTicks, nEvents,
          lastUserEvent, lastWrite, reads, updated, lastQuery, gpuQuiet, gpuGap,
          tickBytes>>

(***************************************************************************)
(* Dimensions (ClockController._fontSize .. _cornerRadius).                *)
(***************************************************************************)
ScaleOf(cfg) == cfg["scale"].v[1]

fontSize(cfg) == Max(8, (BASE_FONT * ScaleOf(cfg)) \div 100)

subFontSize(cfg) == Max(6, (fontSize(cfg) * SUBTEXT_FONT_RATIO) \div 100)

showSubtext(cfg, active) ==
    active /\ Truthy(Get(cfg, "show_time_subtext", PyBool(TRUE)))

showNetStats(cfg) == Truthy(Get(cfg, "show_network_stats", PyBool(FALSE)))

showSysStats(cfg) ==
    \/ Truthy(Get(cfg, "show_cpu", PyBool(FALSE)))
    \/ Truthy(Get(cfg, "show_mem", PyBool(FALSE)))
    \/ Truthy(Get(cfg, "show_gpu", PyBool(FALSE)))

extraLineCount(cfg, active) ==
    (IF showSubtext(cfg, active) THEN 1 ELSE 0)
    + (IF showNetStats(cfg) THEN 1 ELSE 0)
    + (IF showSysStats(cfg) THEN 1 ELSE 0)

\* Mutation of heightWithExtra: the product is taken in the reals.
heightWithExtra_Exact(h, extra) == (h * (100 + 42 * extra)) \div 100

\* int(h * (1 + extra * 0.42)) in double arithmetic.  1 + 3 * 0.42 evaluates
\* to a double below 2.26, so a product that is exactly an integer in the
\* reals truncates to one less (h = 100, 200, 300).  Valid for the heights
\* int(BASE_HEIGHT * s) of the scales MIN_SCALE .. MAX_SCALE on the step grid.
heightWithExtra(h, extra) ==
    IF extra = 3 /\ h % 100 = 0 /\ h > 0
    THEN (h * 226) \div 100 - 1
    ELSE (h * (100 + 42 * extra)) \div 100

windowSize(cfg, active) ==
    LET s == ScaleOf(cfg)
        w == (BASE_WIDTH * s) \div 100
        h == (BASE_HEIGHT * s) \div 100
        extra == extraLineCount(cfg, active)
    IN  [w |-> w, h |-> IF extra > 0 THEN heightWithExtra(h, extra) ELSE h]

cornerRadius(cfg) == Max(4, (BASE_RADIUS * ScaleOf(cfg)) \div 100)

\* _relayout: the content view's size and radius, the fonts, the hidden flags
relayout(cfg, active) ==
    [w |-> windowSize(cfg, active).w,
     h |-> windowSize(cfg, active).h,
     radius |-> cornerRadius(cfg),
     font |-> fontSize(cfg),
     subFont |-> subFontSize(cfg),
     subHidden |-> ~showSubtext(cfg, active),
     netHidden |-> ~showNetStats(cfg),
     sysHidden |-> ~showSysStats(cfg)]

\* Mutation of resizeWindowKeepCenter: the window keeps its origin.
resizeWindowKeepCenter_KeepsOrigin(fr, cfg, active) ==
    [fr EXCEPT !.w = windowSize(cfg, active).w, !.h = windowSize(cfg, active).h]

\* _resizeWindowKeepCenter: the window frame after the resize.  In half points
\* 2 * (cx - w / 2) = x2 + old width - w.
resizeWindowKeepCenter(fr, cfg, active) ==
    LET sz == windowSize(cfg, active)
    IN  [x2 |-> fr.x2 + fr.w - sz.w,
         y2 |-> fr.y2 + fr.h - sz.h,
         w |-> sz.w,
         h |-> sz.h]

\* The top-right anchor of setupWindow and resetPosition_, in half points.
anchorOrigin(cfg, active) ==
    LET sz == windowSize(cfg, active)
    IN  [x2 |-> 2 * (ScreenW - sz.w - PADDING),
         y2 |-> 2 * (ScreenH - sz.h - PADDING)]

\* setupWindow: the frame of the window it creates
setupWindowFrame(cfg, active) ==
    LET sz == windowSize(cfg, active)
        pos == Get(cfg, "position", PyNone)
        org == IF Truthy(pos)
               THEN [x2 |-> pos.v[1], y2 |-> pos.v[2]]
               ELSE anchorOrigin(cfg, active)
    IN  [x2 |-> org.x2, y2 |-> org.y2, w |-> sz.w, h |-> sz.h]

\* buildContextMenu: the state-dependent flags of the menu it builds
buildContextMenu(cfg, t) ==
    [incEnabled |-> ~(ScaleOf(cfg) >= MAX_SCALE),
     decEnabled |-> ~(ScaleOf(cfg) <= MIN_SCALE),
     secondsOn |-> Truthy(cfg["show_seconds"]),
     netOn |-> Truthy(Get(cfg, "show_network_stats", PyBool(FALSE))),
     cpuOn |-> Truthy(Get(cfg, "show_cpu", PyBool(FALSE))),
     memOn |-> Truthy(Get(cfg, "show_mem", PyBool(FALSE))),
     gpuOn |-> Truthy(Get(cfg, "show_gpu", PyBool(FALSE))),
     pauseEnabled |-> t.running,
     resetEnabled |-> t.active,
     subtextItem |-> IF ~t.active THEN "absent"
                     ELSE IF Truthy(Get(cfg, "show_time_subtext", PyBool(TRUE)))
                          THEN "on" ELSE "off"]

(***************************************************************************)
(* The countdown timer (ClockController.init, timer actions, tick).        *)
(***************************************************************************)
\* ClockController.init: the timer state of a fresh controller
InactiveTimer ==
    [total |-> 0, remaining |-> 0, running |-> FALSE, active |-> FALSE,
     finished |-> FALSE, flash_on |-> TRUE]

\* Mutation of timer_start: the finished flag and the flash phase are not
\* reset.
timer_start_KeepsFinished(t, seconds) ==
    [t EXCEPT !.total = seconds, !.remaining = seconds, !.running = TRUE,
              !.active = TRUE]

\* timerStartPreset_ / timerStartFromInput_: the assignments to the timer
timer_start(t, seconds) ==
    [total |-> seconds, remaining |-> seconds, running |-> TRUE,
     active |-> TRUE, finished |-> FALSE, flash_on |-> TRUE]

\* timerPause_: the assignment to the timer
timer_pause(t) == [t EXCEPT !.running = FALSE]

\* Mutation of timer_reset: the finished flag is not cleared.
timer_reset_KeepsFinished(t) ==
    [t EXCEPT !.total = 0, !.remaining = 0, !.running = FALSE,
              !.active = FALSE, !.flash_on = TRUE]

\* Mutation of timer_reset: the flash phase is not restored.
timer_reset_KeepsFlash(t) ==
    [t EXCEPT !.total = 0, !.remaining = 0, !.running = FALSE,
              !.active = FALSE, !.finished = FALSE]

\* timerReset_: the assignments to the timer
timer_reset(t) ==
    [total |-> 0, remaining |-> 0, running |-> FALSE, active |-> FALSE,
     finished |-> FALSE, flash_on |-> TRUE]

\* Mutation of tick_countdown: the countdown finishes on the tick after the
\* one that reaches zero.
tick_countdown_LateFinish(t) ==
    IF t.active /\ t.running
    THEN IF t.remaining <= 0
         THEN [t EXCEPT !.remaining = 0, !.running = FALSE, !.finished = TRUE]
         ELSE [t EXCEPT !.remaining = t.remaining - 1]
    ELSE t

\* Mutation of tick_countdown: the running flag is not tested.
tick_countdown_IgnoresPause(t) ==
    IF t.active /\ t.remaining > 0
    THEN IF t.remaining - 1 <= 0
         THEN [t EXCEPT !.remaining = 0, !.running = FALSE, !.finished = TRUE]
         ELSE [t EXCEPT !.remaining = t.remaining - 1]
    ELSE t

\* tick: the countdown step ("update timer")
tick_countdown(t) ==
    IF t.active /\ t.running /\ t.remaining > 0
    THEN IF t.remaining - 1 <= 0
         THEN [t EXCEPT !.remaining = 0, !.running = FALSE, !.finished = TRUE]
         ELSE [t EXCEPT !.remaining = t.remaining - 1]
    ELSE t

\* Mutation of tick_flash: the flash step flips on every active timer.
tick_flash_WhileActive(t) ==
    IF t.active THEN [t EXCEPT !.flash_on = ~t.flash_on] ELSE t

\* Mutation of tick_flash: the main label is blinked off and never on again.
tick_flash_OnlyOff(t) ==
    IF t.active /\ t.finished THEN [t EXCEPT !.flash_on = FALSE] ELSE t

\* tick: the flash step, taken after the countdown step of the same tick
tick_flash(t) ==
    IF t.active /\ t.finished THEN [t EXCEPT !.flash_on = ~t.flash_on] ELSE t

\* tick: the timer after one call
tick_timer(t) == tick_flash(tick_countdown(t))

\* tick: the alpha value of the main label after one call
tick_alpha(t, alpha) ==
    IF t.active
    THEN IF t.finished THEN (IF t.flash_on THEN 1 ELSE 0) ELSE 1
    ELSE alpha

\* Mutation of tick_finishes: the finishing tick does not refresh the menus.
tick_finishes_Never(t) == FALSE

\* tick: the call took the branch that ends the countdown (and refreshes menus)
tick_finishes(t) == t.active /\ t.running /\ t.remaining > 0 /\ t.remaining - 1 <= 0

(***************************************************************************)
(* The metric sources (tick, "update network stats" and "update system     *)
(* stats").  What a source answers in one tick is [st, pct]: st is "ok",   *)
(* "fail" (the call raises) or "unread" (the tick does not call it).       *)
(***************************************************************************)
Unread == [st |-> "unread", pct |-> 0]

\* The percentages the sources report.
Readings == [cpu |-> {7}, mem |-> {40}, gpu |-> {30, 60}]

showCpu(cfg) == Truthy(Get(cfg, "show_cpu", PyBool(FALSE)))
showMem(cfg) == Truthy(Get(cfg, "show_mem", PyBool(FALSE)))
showGpu(cfg) == Truthy(Get(cfg, "show_gpu", PyBool(FALSE)))

\* read_gpu_utilization(): None when ioreg fails, times out or reports no
\* utilization (every exception is caught inside), else the int
read_gpu_utilization(ans) == IF ans.st = "ok" THEN <<ans.pct>> ELSE <<>>

\* tick: psutil.net_io_counters() is called and raises
netFailed(cfg, rd) == showNetStats(cfg) /\ rd.net.st = "fail"

\* tick: psutil.cpu_percent() is called
cpuRead(cfg, rd) == ~netFailed(cfg, rd) /\ showSysStats(cfg) /\ showCpu(cfg)

cpuFailed(cfg, rd) == cpuRead(cfg, rd) /\ rd.cpu.st = "fail"

\* tick: psutil.virtual_memory() is called
memRead(cfg, rd) ==
    ~netFailed(cfg, rd) /\ ~cpuFailed(cfg, rd) /\ showSysStats(cfg) /\ showMem(cfg)

memFailed(cfg, rd) == memRead(cfg, rd) /\ rd.mem.st = "fail"

\* tick: read_gpu_utilization() is called; count is the incremented tick count
gpuRead(cfg, rd, count) ==
    /\ ~netFailed(cfg, rd) /\ ~cpuFailed(cfg, rd) /\ ~memFailed(cfg, rd)
    /\ showSysStats(cfg) /\ showGpu(cfg)
    /\ count % 3 = 0

\* tick: the exception that leaves it; none of the psutil calls is guarded
tick_raises(cfg, rd) ==
    IF netFailed(cfg, rd) \/ cpuFailed(cfg, rd) \/ memFailed(cfg, rd)
    THEN "psutil.Error" ELSE "none"

\* The answers the sources can give to one tick under the configuration cfg:
\* a source is read exactly when the tick reaches its call.
TickReads(cfg, count) ==
    LET answers(isRead, readings) ==
            IF isRead THEN {[st |-> "fail", pct |-> 0]}
                        \cup {[st |-> "ok", pct |-> n] : n \in readings}
            ELSE {Unread}
        withGpu(n, c, m) ==
            LET rd0 == [net |-> n, cpu |-> c, mem |-> m, gpu |-> Unread]
            IN  {[rd0 EXCEPT !.gpu = g] :
                    g \in answers(gpuRead(cfg, rd0, count), Readings.gpu)}
        withMem(n, c) ==
            LET rd0 == [net |-> n, cpu |-> c, mem |-> Unread, gpu |-> Unread]
            IN  UNION {withGpu(n, c, m) :
                    m \in answers(memRead(cfg, rd0), Readings.mem)}
        withCpu(n) ==
            LET rd0 == [net |-> n, cpu |-> Unread, mem |-> Unread, gpu |-> Unread]
            IN  UNION {withMem(n, c) :
                    c \in answers(cpuRead(cfg, rd0), Readings.cpu)}
    IN  UNION {withCpu(n) : n \in answers(showNetStats(cfg), {0})}

\* No psutil call raises.
Healthy(rd) == rd.net.st # "fail" /\ rd.cpu.st # "fail" /\ rd.mem.st # "fail"

\* tick: the network block ran to its end
tick_netUpdated(cfg, rd) == showNetStats(cfg) /\ ~netFailed(cfg, rd)

\* tick: self._last_bytes_sent, self._last_bytes_recv after the call
tick_lastBytes(cfg, rd, counters, last) ==
    IF tick_netUpdated(cfg, rd) THEN counters ELSE last

\* tick: self._net_up_speed, self._net_down_speed after the call
tick_netSpeed(cfg, rd, counters, last, speed) ==
    IF tick_netUpdated(cfg, rd)
    THEN [up |-> counters.sent - last.sent, down |-> counters.recv - last.recv]
    ELSE speed

\* Mutation of tick_gpu: a query without a reading keeps the previous reading.
tick_gpu_HoldsLastReading(cfg, rd, count, gpu) ==
    IF gpuRead(cfg, rd, count) /\ rd.gpu.st = "ok" THEN <<rd.gpu.pct>> ELSE gpu

\* tick: self._gpu_pct after the call
tick_gpu(cfg, rd, count, gpu) ==
    IF gpuRead(cfg, rd, count) THEN read_gpu_utilization(rd.gpu) ELSE gpu

\* tick: the system block ran to its end
tick_sysUpdated(cfg, rd) == showSysStats(cfg) /\ tick_raises(cfg, rd) = "none"

\* tick: the list parts, gpu being self._gpu_pct after the query
tick_sysParts(cfg, rd, gpu) ==
    (IF showCpu(cfg) THEN <<[name |-> "CPU", pct |-> rd.cpu.pct]>> ELSE <<>>)
    \o (IF showMem(cfg) THEN <<[name |-> "MEM", pct |-> rd.mem.pct]>> ELSE <<>>)
    \o (IF showGpu(cfg) /\ gpu # <<>>
        THEN <<[name |-> "GPU", pct |-> gpu[1]]>> ELSE <<>>)

\* tick: the parts of self._sysLabel after the call
tick_sysLabel(cfg, rd, count, gpu, label) ==
    IF tick_sysUpdated(cfg, rd)
    THEN tick_sysParts(cfg, rd, tick_gpu(cfg, rd, count, gpu))
    ELSE label

(***************************************************************************)
(* The typed duration.  A text is the sequence of its colon-separated      *)
(* fields; a field is [ok, n]: int(field) returns n, or raises ValueError  *)
(* when ok is FALSE.                                                       *)
(***************************************************************************)
IntField(n) == [ok |-> TRUE, n |-> n]
BadField == [ok |-> FALSE, n |-> 0]
Rejected == [ok |-> FALSE, n |-> 0]

\* Mutation of parseTimerInput: two fields are read as hours and minutes.
parseTimerInput_HoursMinutes(parts) ==
    IF Len(parts) = 3
    THEN IF parts[1].ok /\ parts[2].ok /\ parts[3].ok
         THEN [ok |-> TRUE, n |-> parts[1].n * 3600 + parts[2].n * 60 + parts[3].n]
         ELSE Rejected
    ELSE IF Len(parts) = 2
    THEN IF parts[1].ok /\ parts[2].ok
         THEN [ok |-> TRUE, n |-> parts[1].n * 3600 + parts[2].n * 60]
         ELSE Rejected
    ELSE IF Len(parts) = 1
    THEN IF parts[1].ok THEN [ok |-> TRUE, n |-> parts[1].n] ELSE Rejected
    ELSE Rejected

\* _parseTimerInput: [ok, n], ok FALSE for None
parseTimerInput(parts) ==
    IF Len(parts) = 3
    THEN IF parts[1].ok /\ parts[2].ok /\ parts[3].ok
         THEN [ok |-> TRUE, n |-> parts[1].n * 3600 + parts[2].n * 60 + parts[3].n]
         ELSE Rejected
    ELSE IF Len(parts) = 2
    THEN IF parts[1].ok /\ parts[2].ok
         THEN [ok |-> TRUE, n |-> parts[1].n * 60 + parts[2].n]
         ELSE Rejected
    ELSE IF Len(parts) = 1
    THEN IF parts[1].ok THEN [ok |-> TRUE, n |-> parts[1].n] ELSE Rejected
    ELSE Rejected

\* Mutation of startAccepted: a duration of zero is let through.
startAccepted_AllowsZero(parts) ==
    parseTimerInput(parts).ok /\ ~(parseTimerInput(parts).n < 0)

\* timerStartFromInput_: the guard "seconds is None or seconds <= 0" is false
startAccepted(parts) ==
    parseTimerInput(parts).ok /\ ~(parseTimerInput(parts).n <= 0)

\* The texts a user types, kept to durations of at most MaxDur seconds.
InputTexts ==
    {<<IntField(d)>> : d \in -1 .. MaxDur}
    \cup {<<IntField(0), IntField(1)>>, <<IntField(1), IntField(-58)>>,
          <<IntField(0), IntField(0), IntField(2)>>,
          <<IntField(1), IntField(-60), IntField(1)>>,
          <<IntField(0), IntField(-5)>>, <<IntField(0), IntField(0), IntField(0)>>,
          <<BadField>>, <<IntField(1), BadField>>,
          <<BadField, IntField(1), IntField(1)>>,
          <<IntField(0), IntField(0), IntField(0), IntField(1)>>}

\* The durations of the preset items, scaled to the model's bound.
PresetSeconds == 1 .. MaxDur

(***************************************************************************)
(* Event handlers: what each changes of the program's state.  The history  *)
(* variables and the operating system's state (the run loop's timers, the  *)
(* network counters) are set by the actions below.  A handler that saves   *)
(* the configuration takes r, how its call of save_config ends.            *)
(***************************************************************************)
\* Mutation of resizeAndRefresh: the window is resized without _relayout.
resizeAndRefresh_NoRelayout ==
    /\ frame' = resizeWindowKeepCenter(frame, config', timer'.active)
    /\ layout' = layout
    /\ menu' = buildContextMenu(config', timer')

\* _resizeWindowKeepCenter followed by refreshMenus, as the handlers end
resizeAndRefresh ==
    /\ frame' = resizeWindowKeepCenter(frame, config', timer'.active)
    /\ layout' = relayout(config', timer'.active)
    /\ menu' = buildContextMenu(config', timer')

\* A handler that returns: no exception leaves it.
returns == raised' = "none" /\ UNCHANGED proc

\* The statements of a handler after its call of save_config: Rest when the
\* call returned; when it raised, the OSError leaves the handler, and when
\* the process was killed nothing more runs, so that Skipped (what Rest
\* would have set stays as it is) holds.
afterSave(r, Rest, Skipped) ==
    /\ proc' = IF r \in SaveKilled THEN "killed" ELSE proc
    /\ raised' = IF r \in SaveRaises THEN "OSError" ELSE "none"
    /\ IF r = "written" THEN Rest ELSE Skipped

timerStartPreset_(seconds) ==
    /\ timer' = timer_start(timer, seconds)
    /\ mainAlpha' = 1
    /\ UNCHANGED <<config, disk>>
    /\ resizeAndRefresh
    /\ returns
    /\ UNCHANGED <<dragVars, sampleVars>>

timerStartFromInput_(parts) ==
    IF ~startAccepted(parts)
    THEN /\ UNCHANGED <<config, disk, timer, mainAlpha, frame, layout, menu,
                        dragVars, sampleVars>>
         /\ returns
    ELSE /\ timer' = timer_start(timer, parseTimerInput(parts).n)
         /\ mainAlpha' = 1
         /\ UNCHANGED <<config, disk>>
         /\ resizeAndRefresh
         /\ returns
         /\ UNCHANGED <<dragVars, sampleVars>>

\* Mutation of timerPause_: the handler saves the configuration.
timerPause_Saves ==
    /\ timer' = timer_pause(timer)
    /\ menu' = buildContextMenu(config, timer')
    /\ disk' = save_config(config)
    /\ returns
    /\ UNCHANGED <<config, mainAlpha, frame, layout, dragVars, sampleVars>>

timerPause_ ==
    /\ timer' = timer_pause(timer)
    /\ menu' = buildContextMenu(config, timer')
    /\ returns
    /\ UNCHANGED <<config, disk, mainAlpha, frame, layout, dragVars, sampleVars>>

timerReset_ ==
    /\ timer' = timer_reset(timer)
    /\ mainAlpha' = 1
    /\ UNCHANGED <<config, disk>>
    /\ resizeAndRefresh
    /\ returns
    /\ UNCHANGED <<dragVars, sampleVars>>

\* tick, rd being what the metric sources answer and counters the operating
\* system's network counters: the tick count, the timer with the
\* refreshMenus call of the finishing tick, the network block, the system
\* block
tick(rd, counters) ==
    /\ tickCount' = (tickCount + 1) % 3
    /\ timer' = tick_timer(timer)
    /\ mainAlpha' = tick_alpha(timer', mainAlpha)
    /\ menu' = IF tick_finishes(timer)
               THEN buildContextMenu(config, timer')
               ELSE menu
    /\ lastBytes' = tick_lastBytes(config, rd, counters, lastBytes)
    /\ netSpeed' = tick_netSpeed(config, rd, counters, lastBytes, netSpeed)
    /\ gpuPct' = tick_gpu(config, rd, tickCount', gpuPct)
    /\ sysLabel' = tick_sysLabel(config, rd, tickCount', gpuPct, sysLabel)
    /\ raised' = tick_raises(config, rd)
    /\ UNCHANGED <<config, disk, frame, layout, dragVars, proc>>

\* Mutation of scale_up: the result is not clamped to MAX_SCALE.
scale_up_NoClamp(s) == s + SCALE_STEP

\* scaleUp_: min(MAX_SCALE, round(scale + SCALE_STEP, 2)); in hundredths the
\* sum is already a number of two decimals
scale_up(s) == Min(MAX_SCALE, s + SCALE_STEP)

\* scaleDown_: max(MIN_SCALE, round(scale - SCALE_STEP, 2))
scale_down(s) == Max(MIN_SCALE, s - SCALE_STEP)

scaleUp_(r) ==
    /\ config' = [config EXCEPT !["scale"] = PyNum(scale_up(ScaleOf(config)))]
    /\ disk' = saved(disk, config', r)
    /\ UNCHANGED timerVars
    /\ afterSave(r, resizeAndRefresh, UNCHANGED <<frame, layout, menu>>)
    /\ UNCHANGED <<dragVars, sampleVars>>

scaleDown_(r) ==
    /\ config' = [config EXCEPT !["scale"] = PyNum(scale_down(ScaleOf(config)))]
    /\ disk' = saved(disk, config', r)
    /\ UNCHANGED timerVars
    /\ afterSave(r, resizeAndRefresh, UNCHANGED <<frame, layout, menu>>)
    /\ UNCHANGED <<dragVars, sampleVars>>

\* changeBgColor_ / changeFgColor_ / colorPanelChanged_: key is "bg_color" or
\* "fg_color", rgba the preset's or the panel's colour
changeColor(key, rgba, r) ==
    /\ config' = [config EXCEPT ![key] = PyList(rgba)]
    /\ disk' = saved(disk, config', r)
    /\ afterSave(r, menu' = buildContextMenu(config', timer), UNCHANGED menu)
    /\ UNCHANGED <<timerVars, frame, layout, dragVars, sampleVars>>

changeBgColor_(name, r) == changeColor("bg_color", BG_PRESETS(name), r)

changeFgColor_(name, r) == changeColor("fg_color", FG_PRESETS(name), r)

colorPanelChanged_(rgba, r) == changeColor("fg_color", rgba, r)

toggleSeconds_(r) ==
    /\ config' = [config EXCEPT
                    !["show_seconds"] = PyBool(~Truthy(config["show_seconds"]))]
    /\ disk' = saved(disk, config', r)
    /\ afterSave(r, menu' = buildContextMenu(config', timer), UNCHANGED menu)
    /\ UNCHANGED <<timerVars, frame, layout, dragVars, sampleVars>>

\* toggleNetStats_ / toggleCpu_ / toggleMem_ / toggleGpu_ / toggleSubtext_
toggleWithResize(key, default, r) ==
    /\ config' = [k \in DOMAIN config \cup {key} |->
                    IF k = key THEN PyBool(~Truthy(Get(config, key, default)))
                    ELSE config[k]]
    /\ disk' = saved(disk, config', r)
    /\ UNCHANGED timerVars
    /\ afterSave(r, resizeAndRefresh, UNCHANGED <<frame, layout, menu>>)
    /\ UNCHANGED <<dragVars, sampleVars>>

toggleNetStats_(r) == toggleWithResize("show_network_stats", PyBool(FALSE), r)

toggleCpu_(r) == toggleWithResize("show_cpu", PyBool(FALSE), r)

toggleMem_(r) == toggleWithResize("show_mem", PyBool(FALSE), r)

toggleGpu_(r) == toggleWithResize("show_gpu", PyBool(FALSE), r)

toggleSubtext_(r) == toggleWithResize("show_time_subtext", PyBool(TRUE), r)

\* Mutation of resetPosition_: the configuration is not saved.
resetPosition_NoSave(r) ==
    /\ frame' = [frame EXCEPT !.x2 = anchorOrigin(config, timer.active).x2,
                              !.y2 = anchorOrigin(config, timer.active).y2]
    /\ config' = [k \in DOMAIN config \cup {"position"} |->
                    IF k = "position" THEN PyNone ELSE config[k]]
    /\ returns
    /\ UNCHANGED <<disk, timerVars, layout, menu, dragVars, sampleVars>>

\* Mutation of resetPosition_: the window is not moved.
resetPosition_KeepsOrigin(r) ==
    /\ config' = [k \in DOMAIN config \cup {"position"} |->
                    IF k = "position" THEN PyNone ELSE config[k]]
    /\ disk' = saved(disk, config', r)
    /\ afterSave(r, TRUE, TRUE)
    /\ UNCHANGED <<frame, timerVars, layout, menu, dragVars, sampleVars>>

resetPosition_(r) ==
    /\ frame' = [frame EXCEPT !.x2 = anchorOrigin(config, timer.active).x2,
                              !.y2 = anchorOrigin(config, timer.active).y2]
    /\ config' = [k \in DOMAIN config \cup {"position"} |->
                    IF k = "position" THEN PyNone ELSE config[k]]
    /\ disk' = saved(disk, config', r)
    /\ afterSave(r, TRUE, TRUE)
    /\ UNCHANGED <<timerVars, layout, menu, dragVars, sampleVars>>

\* savePosition_(origin), origin in half points
savePosition_(x2, y2, r) ==
    /\ config' = [k \in DOMAIN config \cup {"position"} |->
                    IF k = "position" THEN PyList(<<x2, y2>>) ELSE config[k]]
    /\ disk' = saved(disk, config', r)
    /\ afterSave(r, TRUE, TRUE)

\* DraggableView.mouseDown_
mouseDown_ ==
    /\ ~mousePressed
    /\ mousePressed' = TRUE
    /\ dragOffset' = "set"
    /\ returns
    /\ UNCHANGED <<config, disk, timerVars, frame, layout, menu, sampleVars>>

\* Mutation of mouseDragged_: every drag event saves the origin it sets.
mouseDragged_Saves(dx2, dy2) ==
    /\ mousePressed
    /\ IF dragOffset = "None"
       THEN UNCHANGED frame
       ELSE frame' = [frame EXCEPT !.x2 = frame.x2 + dx2, !.y2 = frame.y2 + dy2]
    /\ savePosition_(frame'.x2, frame'.y2, "written")
    /\ UNCHANGED <<timerVars, layout, menu, dragVars, sampleVars>>

\* DraggableView.mouseDragged_: the pointer moved by (dx2, dy2) half points
mouseDragged_(dx2, dy2) ==
    /\ mousePressed
    /\ IF dragOffset = "None"
       THEN UNCHANGED frame
       ELSE frame' = [frame EXCEPT !.x2 = frame.x2 + dx2, !.y2 = frame.y2 + dy2]
    /\ returns
    /\ UNCHANGED <<config, disk, timerVars, layout, menu, dragVars, sampleVars>>

\* DraggableView.mouseUp_
mouseUp_(r) ==
    /\ mousePressed
    /\ mousePressed' = FALSE
    /\ savePosition_(frame.x2, frame.y2, r)
    /\ UNCHANGED <<timerVars, frame, layout, menu, dragOffset, sampleVars>>

(***************************************************************************)
(* Start-up: main() runs init, setupWindow (with its first tick, which     *)
(* writes the clock text of an inactive timer and samples the visible      *)
(* metrics) and setupMenuBar.                                              *)
(***************************************************************************)
DocMissing == [kind |-> "missing", members |-> NoMembers]

DocGarbage == [kind |-> "garbage", members |-> NoMembers]

\* {"size": "large"}
DocLegacy ==
    [kind |-> "object", members |-> [size |-> [j |-> "string", v |-> <<3>>]]]

\* {"scale": 3.75, "show_cpu": true, "show_time_subtext": false,
\*  "position": [200, 300]}
DocPartial ==
    [kind |-> "object",
     members |-> [scale |-> [j |-> "number", v |-> <<375>>],
                  show_cpu |-> [j |-> "true", v |-> <<>>],
                  show_time_subtext |-> [j |-> "false", v |-> <<>>],
                  position |-> [j |-> "array", v |-> <<400, 600>>]]]

\* {"size": "small", "scale": 0.75, "theme": "..."}: a legacy key beside the
\* new one, and a key the program does not know
DocBoth ==
    [kind |-> "object",
     members |-> [size |-> [j |-> "string", v |-> <<1>>],
                  scale |-> [j |-> "number", v |-> <<75>>],
                  theme |-> [j |-> "string", v |-> <<4>>]]]

StoredDocs == {DocMissing, DocGarbage, DocLegacy, DocPartial, DocBoth}

\* {"size": "small", "show_seconds": false} and
\* {"size": "medium", "show_seconds": false}
LegacyDocs ==
    {[kind |-> "object",
      members |-> [size |-> [j |-> "string", v |-> <<code>>],
                   show_seconds |-> [j |-> "false", v |-> <<>>]]] :
        code \in {1, 2}}

\* Texts json.load accepts whose value is not an object: [], 5, "x", null.
NonObjectDocs ==
    {[kind |-> k, members |-> NoMembers] :
        k \in {"array", "number", "string", "null"}}

\* The metric families whose text a tick writes.
tick_updated(cfg, rd) ==
    (IF tick_netUpdated(cfg, rd) THEN {"net"} ELSE {})
    \cup (IF tick_sysUpdated(cfg, rd) /\ (showCpu(cfg) \/ showMem(cfg))
          THEN {"cpumem"} ELSE {})
    \cup (IF tick_sysUpdated(cfg, rd) /\ showGpu(cfg) THEN {"gpu"} ELSE {})

\* The state in which app.run() starts, the metric sources having answered
\* the first tick.
InitFrom(d) ==
    /\ disk = d
    /\ config = load_config(d)
    /\ timer = InactiveTimer
    /\ mainAlpha = 1
    /\ frame = setupWindowFrame(config, FALSE)
    /\ layout = relayout(config, FALSE)
    /\ menu = buildContextMenu(config, InactiveTimer)
    /\ dragOffset = "None"
    /\ mousePressed = FALSE
    /\ tickCount = 1
    /\ netCounters = [sent |-> 0, recv |-> 0]
    /\ lastBytes = netCounters
    /\ netSpeed = [up |-> 0, down |-> 0]
    /\ gpuPct = <<>>
    /\ \E rd \in TickReads(config, 1) :
          /\ Healthy(rd)
          /\ reads = rd
          /\ sysLabel = tick_sysLabel(config, rd, 1, <<>>, <<>>)
          /\ updated = tick_updated(config, rd)
    /\ proc = "running"
    /\ raised = "none"
    /\ phase = 0
    /\ dueSec = FALSE
    /\ dueHalf = FALSE
    /\ prevTimer = InactiveTimer
    /\ prevAlpha = 1
    /\ requested = 0
    /\ lastTimerEvent = "none"
    /\ typed = <<>>
    /\ sinceStart = -1
    /\ periodTicks = 0
    /\ nEvents = 0
    /\ lastUserEvent = "none"
    /\ lastWrite = "none"
    /\ lastQuery = <<>>
    /\ gpuQuiet = 2
    /\ gpuGap = 2
    /\ tickBytes = netCounters

\* load_config raised in ClockController.init: main ends with the exception
\* before a window, a menu or a timer exists.
FailedStart(d) ==
    /\ disk = d
    /\ config = NoMembers
    /\ timer = InactiveTimer
    /\ mainAlpha = 1
    /\ frame = "None"
    /\ layout = "None"
    /\ menu = "None"
    /\ dragOffset = "None"
    /\ mousePressed = FALSE
    /\ tickCount = 0
    /\ netCounters = [sent |-> 0, recv |-> 0]
    /\ lastBytes = netCounters
    /\ netSpeed = [up |-> 0, down |-> 0]
    /\ gpuPct = <<>>
    /\ reads = [net |-> Unread, cpu |-> Unread, mem |-> Unread, gpu |-> Unread]
    /\ sysLabel = <<>>
    /\ updated = {}
    /\ proc = "failedToStart"
    /\ raised = load_config_raises(d)
    /\ phase = 0
    /\ dueSec = FALSE
    /\ dueHalf = FALSE
    /\ prevTimer = InactiveTimer
    /\ prevAlpha = 1
    /\ requested = 0
    /\ lastTimerEvent = "none"
    /\ typed = <<>>
    /\ sinceStart = -1
    /\ periodTicks = 0
    /\ nEvents = 0
    /\ lastUserEvent = "none"
    /\ lastWrite = "none"
    /\ lastQuery = <<>>
    /\ gpuQuiet = 2
    /\ gpuGap = 2
    /\ tickBytes = netCounters

\* main() on the stored document d
Launch(d) ==
    IF load_config_raises(d) = "none" THEN InitFrom(d) ELSE FailedStart(d)

(***************************************************************************)
(* The run loop's timers.  setupWindow schedules a repeating 1.0 s NSTimer *)
(* on tick, main a repeating 0.5 s NSTimer on tick.  Time passes in half   *)
(* seconds; a due timer fires before more time passes, and at a whole      *)
(* second the 1.0 s timer, scheduled first, fires first.                   *)
(***************************************************************************)
osVars == <<phase, dueSec, dueHalf, netCounters>>
progVars == <<config, disk, timer, mainAlpha, frame, layout, menu, dragOffset,
              mousePressed, tickCount, lastBytes, netSpeed, gpuPct, sysLabel,
              proc, raised>>

TickHistory(rd) ==
    /\ prevTimer' = timer
    /\ prevAlpha' = mainAlpha
    /\ requested' = 0
    /\ lastTimerEvent' = "tick"
    /\ typed' = <<>>
    /\ sinceStart' = IF sinceStart >= 0 /\ sinceStart < timer.total
                     THEN sinceStart + 1 ELSE -1
    /\ periodTicks' = periodTicks + 1
    /\ reads' = rd
    /\ updated' = tick_updated(config, rd)
    /\ lastQuery' = IF gpuRead(config, rd, (tickCount + 1) % 3)
                    THEN read_gpu_utilization(rd.gpu) ELSE lastQuery
    /\ gpuQuiet' = IF gpuRead(config, rd, (tickCount + 1) % 3)
                   THEN 0 ELSE Min(gpuQuiet + 1, 2)
    /\ gpuGap' = IF gpuRead(config, rd, (tickCount + 1) % 3)
                 THEN gpuQuiet ELSE gpuGap
    /\ tickBytes' = netCounters
    /\ UNCHANGED userGhost

TimePasses ==
    /\ ~dueSec /\ ~dueHalf
    /\ phase' = 1 - phase
    /\ dueHalf' = TRUE
    /\ dueSec' = (phase = 1)
    /\ periodTicks' = IF phase = 1 THEN 0 ELSE periodTicks
    /\ UNCHANGED <<progVars, netCounters, timerGhost, typed, userGhost,
                    tickGhost>>

\* The 1.0 s timer calls tick, the sources answering rd.
SecondTimerCalls(rd) ==
    /\ dueSec
    /\ dueSec' = FALSE
    /\ tick(rd, netCounters)
    /\ TickHistory(rd)
    /\ UNCHANGED <<phase, dueHalf, netCounters>>

\* The 0.5 s timer calls tick, the sources answering rd.
HalfSecondTimerCalls(rd) ==
    /\ dueHalf /\ ~dueSec
    /\ dueHalf' = FALSE
    /\ tick(rd, netCounters)
    /\ TickHistory(rd)
    /\ UNCHANGED <<phase, dueSec, netCounters>>

\* The timers fire while no psutil call raises.
SecondTimerFires ==
    \E rd \in TickReads(config, (tickCount + 1) % 3) :
        Healthy(rd) /\ SecondTimerCalls(rd)

HalfSecondTimerFires ==
    \E rd \in TickReads(config, (tickCount + 1) % 3) :
        Healthy(rd) /\ HalfSecondTimerCalls(rd)

(***************************************************************************)
(* Timer actions of the menu.  The history variables classify a typed      *)
(* request by the text itself: one to three integer fields H:M:S, M:S or S *)
(* that add up to a positive number of seconds.                            *)
(***************************************************************************)
TypedSeconds(parts) ==
    IF Len(parts) = 3 THEN parts[1].n * 3600 + parts[2].n * 60 + parts[3].n
    ELSE IF Len(parts) = 2 THEN parts[1].n * 60 + parts[2].n
    ELSE parts[1].n

ValidDuration(parts) ==
    /\ Len(parts) \in {1, 2, 3}
    /\ \A i \in 1 .. Len(parts) : parts[i].ok
    /\ TypedSeconds(parts) > 0

TimerStartPreset ==
    \E seconds \in PresetSeconds :
        /\ timerStartPreset_(seconds)
        /\ prevTimer' = timer
        /\ prevAlpha' = mainAlpha
        /\ requested' = seconds
        /\ lastTimerEvent' = "start"
        /\ typed' = <<>>
        /\ sinceStart' = 0
        /\ UNCHANGED <<periodTicks, userGhost, tickGhost, osVars>>

TimerStartFromInput ==
    \E parts \in InputTexts :
        /\ timerStartFromInput_(parts)
        /\ prevTimer' = timer
        /\ prevAlpha' = mainAlpha
        /\ requested' = IF ValidDuration(parts) THEN TypedSeconds(parts) ELSE 0
        /\ lastTimerEvent' = IF ValidDuration(parts) THEN "start" ELSE "rejected"
        /\ typed' = <<>>
        /\ sinceStart' = IF ValidDuration(parts) THEN 0 ELSE sinceStart
        /\ UNCHANGED <<periodTicks, userGhost, tickGhost, osVars>>

TimerPause ==
    /\ timerPause_
    /\ prevTimer' = timer
    /\ prevAlpha' = mainAlpha
    /\ requested' = 0
    /\ lastTimerEvent' = "pause"
    /\ typed' = <<>>
    /\ sinceStart' = -1
    /\ UNCHANGED <<periodTicks, userGhost, tickGhost, osVars>>

TimerReset ==
    /\ timerReset_
    /\ prevTimer' = timer
    /\ prevAlpha' = mainAlpha
    /\ requested' = 0
    /\ lastTimerEvent' = "reset"
    /\ typed' = <<>>
    /\ sinceStart' = -1
    /\ UNCHANGED <<periodTicks, userGhost, tickGhost, osVars>>

(***************************************************************************)
(* Configuration actions interleaved with the timer; their writes succeed. *)
(***************************************************************************)
ToggleSubtext == toggleSubtext_("written") /\ UNCHANGED <<ghostVars, osVars>>

ToggleSeconds == toggleSeconds_("written") /\ UNCHANGED <<ghostVars, osVars>>

ToggleNetStats == toggleNetStats_("written") /\ UNCHANGED <<ghostVars, osVars>>

InitTimer == InitFrom(DocMissing)

NextTimer ==
    \/ TimePasses
    \/ SecondTimerFires
    \/ HalfSecondTimerFires
    \/ TimerStartPreset
    \/ TimerStartFromInput
    \/ TimerPause
    \/ TimerReset
    \/ ToggleSubtext
    \/ ToggleSeconds
    \/ ToggleNetStats

\* Every interleaving of ticks, timer actions and configuration toggles.
SpecTimer == InitTimer /\ [][NextTimer]_vars

\* The run loop keeps running: time passes and due timers fire.
SpecTimerFair ==
    /\ SpecTimer
    /\ WF_vars(TimePasses)
    /\ WF_vars(SecondTimerFires)
    /\ WF_vars(HalfSecondTimerFires)

(***************************************************************************)
(* A session of at most MaxEvents user events on the configuration, from   *)
(* each of the stored documents and the legacy documents; every write      *)
(* succeeds.                                                               *)
(***************************************************************************)
\* One user event, named name, is dispatched to its handler, whose call of
\* save_config ends as r ("none": the handler does not save).
UserEvent(name, r) ==
    /\ proc = "running"
    /\ nEvents < MaxEvents
    /\ nEvents' = nEvents + 1
    /\ lastUserEvent' = name
    /\ lastWrite' = r
    /\ typed' = <<>>
    /\ UNCHANGED <<timerGhost, periodTicks, tickGhost, osVars>>

CfgScaleUp == UserEvent("scaleUp", "written") /\ scaleUp_("written")

CfgScaleDown == UserEvent("scaleDown", "written") /\ scaleDown_("written")

CfgChangeBgColor ==
    /\ UserEvent("changeBgColor", "written")
    /\ \E name \in {"Light"} : changeBgColor_(name, "written")

CfgChangeFgColor ==
    /\ UserEvent("changeFgColor", "written")
    /\ \E name \in {"Black"} : changeFgColor_(name, "written")

CfgColorPanelChanged ==
    /\ UserEvent("colorPanelChanged", "written")
    /\ \E rgba \in {<<123, 456, 789, 500>>} : colorPanelChanged_(rgba, "written")

CfgToggleSeconds ==
    UserEvent("toggleSeconds", "written") /\ toggleSeconds_("written")

CfgToggleNetStats ==
    UserEvent("toggleNetStats", "written") /\ toggleNetStats_("written")

CfgToggleCpu == UserEvent("toggleCpu", "written") /\ toggleCpu_("written")

CfgToggleMem == UserEvent("toggleMem", "written") /\ toggleMem_("written")

CfgToggleGpu == UserEvent("toggleGpu", "written") /\ toggleGpu_("written")

CfgToggleSubtext ==
    UserEvent("toggleSubtext", "written") /\ toggleSubtext_("written")

CfgResetPosition ==
    UserEvent("resetPosition", "written") /\ resetPosition_("written")

CfgMouseDown == UserEvent("mouseDown", "none") /\ mouseDown_

CfgMouseDragged ==
    /\ UserEvent("mouseDragged", "none")
    /\ \E d \in {<<30, -14>>, <<-7, 0>>} : mouseDragged_(d[1], d[2])

CfgMouseUp == UserEvent("mouseUp", "written") /\ mouseUp_("written")

InitConfig == \E d \in StoredDocs \cup LegacyDocs : InitFrom(d)

NextConfig ==
    \/ CfgScaleUp
    \/ CfgScaleDown
    \/ CfgChangeBgColor
    \/ CfgChangeFgColor
    \/ CfgColorPanelChanged
    \/ CfgToggleSeconds
    \/ CfgToggleNetStats
    \/ CfgToggleCpu
    \/ CfgToggleMem
    \/ CfgToggleGpu
    \/ CfgToggleSubtext
    \/ CfgResetPosition
    \/ CfgMouseDown
    \/ CfgMouseDragged
    \/ CfgMouseUp

SpecConfig == InitConfig /\ [][NextConfig]_vars

(***************************************************************************)
(* A session on the window: the events that resize it (scale, line         *)
(* toggles, timer start from a preset or a typed text, timer reset), that  *)
(* move it (reset position, drag) and the drag release; every write        *)
(* succeeds.                                                               *)
(***************************************************************************)
NextWindow ==
    \/ /\ UserEvent("timerStart", "none")
       /\ \E seconds \in PresetSeconds : timerStartPreset_(seconds)
    \/ UserEvent("timerReset", "none") /\ timerReset_
    \/ \E parts \in InputTexts :
          /\ proc = "running"
          /\ nEvents < MaxEvents
          /\ nEvents' = nEvents + 1
          /\ lastUserEvent' = "timerStartFromInput"
          /\ lastWrite' = "none"
          /\ typed' = parts
          /\ timerStartFromInput_(parts)
          /\ UNCHANGED <<timerGhost, periodTicks, tickGhost, osVars>>
    \/ CfgScaleUp
    \/ CfgScaleDown
    \/ CfgToggleNetStats
    \/ CfgToggleCpu
    \/ CfgToggleSubtext
    \/ CfgResetPosition
    \/ CfgMouseDown
    \/ CfgMouseDragged
    \/ CfgMouseUp

SpecWindow ==
    (\E d \in {DocMissing, DocPartial} : InitFrom(d)) /\ [][NextWindow]_vars

(***************************************************************************)
(* A session in which the file system can refuse a write and the process   *)
(* can be killed inside save_config, started from every kind of stored     *)
(* document.                                                               *)
(***************************************************************************)
NextFaults ==
    \/ \E r \in SaveResults : UserEvent("scaleUp", r) /\ scaleUp_(r)
    \/ \E r \in SaveResults : UserEvent("scaleDown", r) /\ scaleDown_(r)
    \/ \E r \in SaveResults :
            UserEvent("toggleNetStats", r) /\ toggleNetStats_(r)
    \/ \E r \in SaveResults :
            UserEvent("toggleSeconds", r) /\ toggleSeconds_(r)
    \/ \E r \in SaveResults :
            UserEvent("resetPosition", r) /\ resetPosition_(r)
    \/ UserEvent("mouseDown", "none") /\ mouseDown_
    \/ \E r \in SaveResults : UserEvent("mouseUp", r) /\ mouseUp_(r)

SpecFaults ==
    (\E d \in StoredDocs \cup NonObjectDocs : Launch(d)) /\ [][NextFaults]_vars

(***************************************************************************)
(* The metrics: ticks whose sources can fail, network traffic of at most   *)
(* MaxBytes bytes sent, and the toggles of the network and system lines.   *)
(***************************************************************************)
\* One byte is sent and two are received.
Traffic ==
    /\ netCounters.sent < MaxBytes
    /\ netCounters' = [sent |-> netCounters.sent + 1,
                       recv |-> netCounters.recv + 2]
    /\ UNCHANGED <<progVars, phase, dueSec, dueHalf, ghostVars>>

ToggleCpu == toggleCpu_("written") /\ UNCHANGED <<ghostVars, osVars>>

ToggleGpu == toggleGpu_("written") /\ UNCHANGED <<ghostVars, osVars>>

NextMetrics ==
    \/ TimePasses
    \/ \E rd \in TickReads(config, (tickCount + 1) % 3) :
            SecondTimerCalls(rd)
    \/ \E rd \in TickReads(config, (tickCount + 1) % 3) :
            HalfSecondTimerCalls(rd)
    \/ Traffic
    \/ ToggleNetStats
    \/ ToggleCpu
    \/ ToggleGpu

SpecMetrics == InitFrom(DocMissing) /\ [][NextMetrics]_vars

(***************************************************************************)
(* The whole application: the run loop's ticks interleaved with a session  *)
(* of at most MaxEvents user events (timer start, pause and reset, scale   *)
(* changes and line toggles), started near the largest and near the        *)
(* smallest scale; every write succeeds and no psutil call raises.         *)
(***************************************************************************)
NextApp ==
    \/ TimePasses
    \/ SecondTimerFires
    \/ HalfSecondTimerFires
    \/ /\ UserEvent("timerStart", "none")
       /\ \E seconds \in {1, 2} : timerStartPreset_(seconds)
    \/ UserEvent("timerPause", "none") /\ timerPause_
    \/ UserEvent("timerReset", "none") /\ timerReset_
    \/ CfgScaleUp
    \/ CfgScaleDown
    \/ CfgToggleSeconds
    \/ CfgToggleNetStats
    \/ CfgToggleSubtext

SpecApp ==
    (\E d \in {DocPartial, DocBoth} : InitFrom(d)) /\ [][NextApp]_vars

(***************************************************************************)
(* Properties of the countdown timer, checked under SpecTimer.             *)
(***************************************************************************)
Inactive(t) == ~t.active
Running(t) == t.active /\ t.running
Paused(t) == t.active /\ ~t.running /\ ~t.finished
Finished(t) == t.finished

\* C1: after a start with duration n > 0 and no start, pause or reset since,
\* the k-th tick (0 < k < n) leaves remaining = n - k, running and not
\* finished; the n-th tick leaves remaining = 0, not running and finished;
\* and no state between events has an active timer at remaining = 0 that is
\* not finished.
C1_CountdownReachesFinishedAtZero ==
    /\ lastTimerEvent = "start" =>
          (sinceStart = 0 /\ requested > 0 /\ timer.total = requested)
    /\ (sinceStart >= 0 /\ sinceStart < timer.total) =>
          /\ timer.remaining = timer.total - sinceStart
          /\ timer.running
          /\ ~timer.finished
    /\ (sinceStart >= 0 /\ sinceStart = timer.total) =>
          /\ timer.remaining = 0
          /\ ~timer.running
          /\ timer.finished
    /\ (timer.active /\ timer.remaining = 0) => timer.finished

\* The n-th tick after a start of n = MaxDur seconds has just finished the
\* countdown.
C1_Witness ==
    /\ sinceStart = MaxDur
    /\ timer.total = MaxDur
    /\ lastTimerEvent = "tick"
    /\ prevTimer.remaining = 1
    /\ timer.finished

\* C2: in every reachable state running implies active; finished implies
\* active, remaining = 0 and not running; and 0 <= remaining <= total.
C2_TimerInvariant ==
    /\ timer.running => timer.active
    /\ timer.finished => (timer.active /\ timer.remaining = 0 /\ ~timer.running)
    /\ 0 <= timer.remaining
    /\ timer.remaining <= timer.total

\* A reset has just left a finished, blinking timer.
C2_Witness ==
    /\ lastTimerEvent = "reset"
    /\ prevTimer.finished
    /\ ~prevTimer.flash_on
    /\ ~timer.active

C4_StartOnPausedResumes ==
    (lastTimerEvent = "start" /\ Paused(prevTimer) /\ prevTimer.remaining > 0)
        => /\ timer.running
           /\ timer.remaining = prevTimer.remaining
           /\ timer.total = prevTimer.total

\* C5: pause changes nothing of the timer but running, which it clears (so
\* from Inactive, Paused or Finished it changes nothing), and a tick taken
\* while Paused leaves the timer and the main label's alpha unchanged.
C5_PauseOnlyClearsRunning ==
    /\ lastTimerEvent = "pause" =>
          /\ timer = [prevTimer EXCEPT !.running = FALSE]
          /\ mainAlpha = prevAlpha
    /\ (lastTimerEvent = "pause" /\ ~Running(prevTimer)) => timer = prevTimer
    /\ (lastTimerEvent = "tick" /\ Paused(prevTimer)) =>
          /\ timer = prevTimer
          /\ mainAlpha = prevAlpha

\* A tick has just been taken on a timer paused in mid-countdown.
C5_Witness ==
    /\ lastTimerEvent = "tick"
    /\ Paused(prevTimer)
    /\ prevTimer.remaining > 0
    /\ prevTimer.remaining < prevTimer.total

\* C6: a reset from any timer state yields total = 0, remaining = 0, not
\* active, not running, not finished, flash_on, and an opaque main label.
C6_ResetYieldsInactiveDefaults ==
    lastTimerEvent = "reset" =>
        /\ timer.total = 0
        /\ timer.remaining = 0
        /\ ~timer.active
        /\ ~timer.running
        /\ ~timer.finished
        /\ timer.flash_on
        /\ mainAlpha = 1

\* A reset has just been handled on a finished timer blinked off.
C6_Witness ==
    /\ lastTimerEvent = "reset"
    /\ Finished(prevTimer)
    /\ ~prevTimer.flash_on
    /\ prevAlpha = 0

\* C7: a start attempt whose typed duration is zero, negative or does not
\* parse leaves the timer and the main label unchanged, whatever the state.
C7_BadDurationChangesNothing ==
    lastTimerEvent = "rejected" =>
        /\ timer = prevTimer
        /\ mainAlpha = prevAlpha

\* A bad duration has just been rejected on a timer in mid-countdown.
C7_Witness ==
    /\ lastTimerEvent = "rejected"
    /\ Running(timer)
    /\ timer.remaining < timer.total

\* C8: a tick taken while Finished flips flash_on and changes no other timer
\* field; and if the timer stays Finished for ever while the run loop keeps
\* firing its timers, flash_on is infinitely often true and infinitely often
\* false.
C8_FinishedBlinksForever ==
    /\ [](lastTimerEvent = "tick" /\ Finished(prevTimer) =>
            timer = [prevTimer EXCEPT !.flash_on = ~prevTimer.flash_on])
    /\ (<>[]Finished(timer)) => ([]<>timer.flash_on /\ []<>(~timer.flash_on))

\* A tick has just flipped flash_on back on, on a finished timer.
C8_Witness ==
    /\ lastTimerEvent = "tick"
    /\ Finished(prevTimer)
    /\ ~prevTimer.flash_on
    /\ timer.flash_on
    /\ mainAlpha = 1

\* C9: tick() is called at most once between two consecutive whole seconds.
C9_OneTickPerSecond == periodTicks <= 1

(***************************************************************************)
(* Properties of the configuration store, checked under SpecConfig.        *)
(***************************************************************************)
\* C10: after every configuration action (scale, colours, toggles, reset
\* position, drag release) loading the persisted document yields the
\* in-memory configuration; before the first action the configuration is the
\* loaded document by construction.
C10_PersistedDocumentLoadsToConfig == load_config(disk) = config

\* A drag has been released after the GPU toggle: the saved document holds
\* the window's origin and the flag.
C10_Witness ==
    /\ nEvents > 0
    /\ ~mousePressed
    /\ disk.kind = "object"
    /\ disk.members["position"].j = "array"
    /\ disk.members["position"].v = <<frame.x2, frame.y2>>
    /\ disk.members["show_gpu"].j = "true"
    /\ Truthy(config["show_gpu"])

(***************************************************************************)
(* Properties of loading and saving under faults, checked under            *)
(* SpecFaults.                                                             *)
(***************************************************************************)
\* C11: load_config returns without raising, and with every key of
\* DEFAULT_CONFIG present, for every stored document: a missing file, text
\* that does not parse, an object with any subset of the keys, and a JSON
\* value that is not an object; so the program never fails to start on its
\* document.
C11_LoadConfigAlwaysReturnsFullConfig ==
    /\ load_config_raises(disk) = "none"
    /\ DefaultKeys \subseteq DOMAIN load_config(disk)
    /\ proc # "failedToStart"
    /\ proc = "running" => DefaultKeys \subseteq DOMAIN config

\* C12: when the process dies inside a save, the persisted document is
\* either the complete document from before the save or the complete new
\* one.
C12_CrashLeavesOldOrNewDocument ==
    [][proc' = "killed" => disk' \in {disk, save_config(config')}]_vars

\* C13: when the write of a configuration action fails, no exception leaves
\* the handler and the action completes: the configuration is mutated, the
\* window and the labels are laid out for the new configuration, and the
\* menu is rebuilt from it.
C13_WriteFailureIsSwallowed ==
    [][(nEvents' # nEvents /\ lastWrite' \in SaveRaises) =>
          /\ raised' = "none"
          /\ proc' = "running"
          /\ lastUserEvent' = "scaleUp" =>
                ScaleOf(config') = Min(MAX_SCALE, ScaleOf(config) + SCALE_STEP)
          /\ lastUserEvent' = "scaleDown" =>
                ScaleOf(config') = Max(MIN_SCALE, ScaleOf(config) - SCALE_STEP)
          /\ lastUserEvent' = "toggleNetStats" =>
                showNetStats(config') = ~showNetStats(config)
          /\ lastUserEvent' = "toggleSeconds" =>
                Truthy(config'["show_seconds"]) = ~Truthy(config["show_seconds"])
          /\ lastUserEvent' = "resetPosition" => config'["position"] = PyNone
          /\ lastUserEvent' = "mouseUp" =>
                config'["position"] = PyList(<<frame.x2, frame.y2>>)
          /\ frame'.w = windowSize(config', timer'.active).w
          /\ frame'.h = windowSize(config', timer'.active).h
          /\ layout' = relayout(config', timer'.active)
          /\ menu' = buildContextMenu(config', timer')]_vars

(***************************************************************************)
(* Properties of the scale, checked under SpecConfig.                      *)
(***************************************************************************)
OnScaleGrid(s) ==
    /\ MIN_SCALE <= s
    /\ s <= MAX_SCALE
    /\ (s - MIN_SCALE) % SCALE_STEP = 0

\* C14: from a loaded scale in [MIN_SCALE, MAX_SCALE] on the SCALE_STEP grid,
\* every sequence of scaleUp and scaleDown keeps the scale in the range and
\* on the grid; scaleUp adds one step below MAX_SCALE and changes nothing at
\* MAX_SCALE, scaleDown takes one step off above MIN_SCALE and changes
\* nothing at MIN_SCALE; so below MAX_SCALE a scaleDown after a scaleUp
\* gives the original value back.
C14_ScaleStaysOnGrid ==
    /\ [](OnScaleGrid(ScaleOf(config)))
    /\ [](ScaleOf(config) < MAX_SCALE =>
            scale_down(scale_up(ScaleOf(config))) = ScaleOf(config))
    /\ [][(nEvents' # nEvents /\ lastUserEvent' = "scaleUp") =>
            ScaleOf(config') = IF ScaleOf(config) = MAX_SCALE THEN MAX_SCALE
                               ELSE ScaleOf(config) + SCALE_STEP]_vars
    /\ [][(nEvents' # nEvents /\ lastUserEvent' = "scaleDown") =>
            ScaleOf(config') = IF ScaleOf(config) = MIN_SCALE THEN MIN_SCALE
                               ELSE ScaleOf(config) - SCALE_STEP]_vars

\* Two events after the launch with the stored scale 3.75 only the scale
\* has changed, to MAX_SCALE: both were scaleUp, the second one handled at
\* MAX_SCALE, and the document and the window are those of MAX_SCALE.
C14_Witness ==
    /\ lastUserEvent = "scaleUp"
    /\ nEvents = 2
    /\ ~mousePressed
    /\ config = [load_config(DocPartial) EXCEPT !["scale"] = PyNum(MAX_SCALE)]
    /\ disk.members["scale"].v = <<MAX_SCALE>>
    /\ frame.w = (BASE_WIDTH * MAX_SCALE) \div 100
    /\ ~menu.incEnabled

(***************************************************************************)
(* Properties of the metrics, checked under SpecMetrics.                   *)
(***************************************************************************)
\* C15: on every tick on which the network line is visible (and the counters
\* are read), the reported up and down rates are the bytes transferred since
\* the immediately preceding tick, also on the first tick after the line was
\* off for some ticks.
C15_RateIsTrafficSincePrecedingTick ==
    [][(tickCount' # tickCount /\ showNetStats(config) /\ reads'.net.st = "ok") =>
          netSpeed' = [up |-> netCounters.sent - tickBytes.sent,
                       down |-> netCounters.recv - tickBytes.recv]]_vars

\* C16: in one tick a failing GPU query, network-counter read or CPU/memory
\* read lets no exception leave the tick, lets the timer advance, and lets
\* every other visible family be written in that tick.
C16_MetricFamiliesFailIndependently ==
    [][tickCount' # tickCount =>
          /\ raised' = "none"
          /\ timer' = tick_timer(timer)
          /\ (showNetStats(config) /\ reads'.net.st # "fail") => "net" \in updated'
          /\ ((showCpu(config) \/ showMem(config))
                /\ reads'.cpu.st # "fail" /\ reads'.mem.st # "fail")
                => "cpumem" \in updated'
          /\ showGpu(config) => "gpu" \in updated']_vars

\* The GPU field of the system line: <<n>> for "GPU n%", <<>> when the line
\* has no such field.
GpuField(label) ==
    LET at == {i \in 1 .. Len(label) : label[i].name = "GPU"}
    IN  IF at = {} THEN <<>> ELSE <<label[CHOOSE i \in at : TRUE].pct>>

\* C17: a tick queries the GPU source only when show_gpu is enabled and the
\* tick count is a multiple of 3, so two queries are separated by at least
\* two ticks without one; the reading kept, and the GPU field of the system
\* line written by any tick with show_gpu enabled, is the result of the most
\* recent query, the field being omitted when that query gave no reading (or
\* none was made yet).
C17_GpuSampledEveryThirdTick ==
    [][tickCount' # tickCount =>
          /\ gpuQuiet' = 0 => (showGpu(config) /\ tickCount' = 0)
          /\ gpuGap' >= 2
          /\ gpuPct' = lastQuery'
          /\ (showGpu(config) /\ "gpu" \in updated') =>
                GpuField(sysLabel') = lastQuery'
          /\ ~showGpu(config) => (gpuQuiet' # 0 /\ gpuPct' = gpuPct)]_vars

\* Two ticks after a query that read 60 %, following an earlier query, the
\* tick (which made no query) has written "GPU 60%" beside the CPU field.
C17_Witness ==
    /\ lastTimerEvent = "tick"
    /\ showGpu(config)
    /\ showCpu(config)
    /\ gpuQuiet = 2
    /\ gpuGap = 2
    /\ reads.gpu = Unread
    /\ lastQuery = <<60>>
    /\ "gpu" \in updated
    /\ GpuField(sysLabel) = <<60>>
    /\ Len(sysLabel) = 2

(***************************************************************************)
(* Properties of the window, checked under SpecWindow.                     *)
(***************************************************************************)
\* Twice the centre of a frame, in half points: 2 * (x + w / 2) = x2 + w.
Centre(fr) == <<fr.x2 + fr.w, fr.y2 + fr.h>>

\* The frame's origin is the top-right anchor for the frame's size.
Anchored(fr) ==
    /\ fr.x2 = 2 * (ScreenW - fr.w - PADDING)
    /\ fr.y2 = 2 * (ScreenH - fr.h - PADDING)

ResizeEvents ==
    {"scaleUp", "scaleDown", "toggleNetStats", "toggleCpu", "toggleMem",
     "toggleGpu", "toggleSubtext", "timerStart", "timerReset"}

\* C18: every scaleUp, scaleDown, line toggle, timer start and timer reset
\* gives the window the size of the new configuration and timer state and
\* leaves the centre of its frame where it was.
C18_ResizeKeepsCentre ==
    [][(nEvents' # nEvents /\ lastUserEvent' \in ResizeEvents) =>
          /\ Centre(frame') = Centre(frame)
          /\ frame'.w = windowSize(config', timer'.active).w
          /\ frame'.h = windowSize(config', timer'.active).h]_vars

\* A timer start, the first event after a launch without a document, has
\* made the window taller for the subtext line, around the same centre.
C18_Witness ==
    /\ lastUserEvent = "timerStart"
    /\ nEvents = 1
    /\ config["position"] = PyNone
    /\ frame.h > BASE_HEIGHT
    /\ frame.w = BASE_WIDTH
    /\ Centre(frame) = <<2 * (ScreenW - PADDING) - BASE_WIDTH,
                          2 * (ScreenH - PADDING) - BASE_HEIGHT>>

C20_DragTranslatesAndReleaseSaves ==
    [][nEvents' # nEvents =>
          /\ lastUserEvent' \in {"mouseDown", "mouseDragged"} =>
                /\ config' = config
                /\ disk' = disk
                /\ layout' = layout
                /\ frame'.w = frame.w
                /\ frame'.h = frame.h
          /\ lastUserEvent' = "mouseDown" => frame' = frame
          /\ lastUserEvent' = "mouseUp" =>
                /\ frame' = frame
                /\ layout' = layout
                /\ config' = [config EXCEPT
                                !["position"] = PyList(<<frame.x2, frame.y2>>)]
                /\ disk' = save_config(config')]_vars

\* A drag of two events from the anchor has just been released: the
\* position in memory and on disk is the window's final origin.
C20_Witness ==
    /\ lastUserEvent = "mouseUp"
    /\ nEvents = 4
    /\ frame.w = BASE_WIDTH
    /\ frame.x2 = 2 * (ScreenW - frame.w - PADDING) + 30 - 7
    /\ frame.y2 = 2 * (ScreenH - frame.h - PADDING) - 14
    /\ config["position"] = PyList(<<frame.x2, frame.y2>>)
    /\ disk.members["position"].v = <<frame.x2, frame.y2>>

(***************************************************************************)
(* Properties of the window's size, checked under SpecWindow.              *)
(***************************************************************************)
\* The lines shown below the primary one, counted from the state.
VisibleExtraLines ==
    Cardinality({l \in {"subtext", "network", "system"} :
        \/ l = "subtext" /\ timer.active /\ Truthy(config["show_time_subtext"])
        \/ l = "network" /\ Truthy(config["show_network_stats"])
        \/ l = "system" /\ \/ Truthy(config["show_cpu"])
                           \/ Truthy(config["show_mem"])
                           \/ Truthy(config["show_gpu"])})

\* The product BASE_HEIGHT * scale * (1 + 0.42 * n) of the reals, truncated.
TruncatedHeight(n) ==
    (BASE_HEIGHT * ScaleOf(config) * (100 + 42 * n)) \div 10000

C22_LegacySizeMigratesToScale ==
    LET m == disk.members
        cfg == load_config(disk)
        size(code) == [j |-> "string", v |-> <<code>>]
    IN  /\ (disk.kind = "object" /\ "size" \in DOMAIN m /\ "scale" \notin DOMAIN m)
              => /\ m["size"] = size(1) => cfg["scale"] = PyNum(50)
                 /\ m["size"] = size(2) => cfg["scale"] = PyNum(100)
                 /\ m["size"] = size(3) => cfg["scale"] = PyNum(150)
                 /\ "size" \notin DOMAIN cfg
                 /\ \A k \in DefaultKeys \ {"scale"} :
                        cfg[k] = IF k \in DOMAIN m THEN FromJson(m[k])
                                 ELSE DEFAULT_CONFIG[k]
                 /\ config = cfg
        /\ (disk.kind = "object" /\ "scale" \in DOMAIN m)
              => /\ cfg["scale"] = FromJson(m["scale"])
                 /\ config["scale"] = cfg["scale"]

\* The program has started from {"size": "small", "show_seconds": false}:
\* scale 0.5 in a window 190 wide, no size key, seconds off as stored.
C22_Witness ==
    /\ nEvents = 0
    /\ disk.kind = "object"
    /\ DOMAIN disk.members = {"size", "show_seconds"}
    /\ disk.members["size"].v = <<1>>
    /\ config["scale"] = PyNum(50)
    /\ "size" \notin DOMAIN config
    /\ ~Truthy(config["show_seconds"])
    /\ config["show_time_subtext"] = PyBool(TRUE)
    /\ frame.w = 190

(***************************************************************************)
(* Properties of the typed duration, checked under SpecWindow.             *)
(***************************************************************************)
\* The text has one to three fields and int() accepts each of them.
IntegerFields(parts) ==
    Len(parts) \in {1, 2, 3} /\ \A i \in 1 .. Len(parts) : parts[i].ok

\* C23: the parser maps three integer fields h:m:s to h * 3600 + m * 60 + s,
\* two fields m:s to m * 60 + s and one field to its number, and returns no
\* value for a text with a field that is not an integer (an empty field
\* included) or with more than three fields; so a typed start request begins
\* a countdown of that many seconds when the text maps to a positive number
\* and changes nothing of the timer otherwise.
C23_ParserMapsFieldsToSeconds ==
    /\ [](\A parts \in InputTexts :
            parseTimerInput(parts) =
                IF IntegerFields(parts)
                THEN [ok |-> TRUE, n |-> TypedSeconds(parts)]
                ELSE [ok |-> FALSE, n |-> 0])
    /\ [][(nEvents' # nEvents /\ lastUserEvent' = "timerStartFromInput") =>
            IF IntegerFields(typed') /\ TypedSeconds(typed') > 0
            THEN timer' = [total |-> TypedSeconds(typed'),
                           remaining |-> TypedSeconds(typed'),
                           running |-> TRUE, active |-> TRUE,
                           finished |-> FALSE, flash_on |-> TRUE]
            ELSE timer' = timer]_vars

\* The text "1:-60:1" has just started a countdown of one second on a timer
\* that was inactive.
C23_Witness ==
    /\ lastUserEvent = "timerStartFromInput"
    /\ typed = <<IntField(1), IntField(-60), IntField(1)>>
    /\ nEvents = 1
    /\ timer.total = 1
    /\ timer.remaining = 1
    /\ timer.running

(***************************************************************************)
(* Properties of the menu and the geometry over whole sessions, checked    *)
(* under SpecApp.                                                          *)
(***************************************************************************)
\* C24: after every event (menu action, timer action, tick, the finishing
\* tick included) the installed menu shows the current state: each show_*
\* item is checked iff its flag is true (the subtext item exists iff the
\* timer is active), Increase is enabled iff scale < MAX_SCALE, Decrease iff
\* scale > MIN_SCALE, Pause iff the timer is running, Reset iff it is active.
C24_MenuReflectsState ==
    /\ menu.secondsOn = Truthy(config["show_seconds"])
    /\ menu.netOn = Truthy(config["show_network_stats"])
    /\ menu.cpuOn = Truthy(config["show_cpu"])
    /\ menu.memOn = Truthy(config["show_mem"])
    /\ menu.gpuOn = Truthy(config["show_gpu"])
    /\ (menu.subtextItem # "absent") = timer.active
    /\ (menu.subtextItem = "on") =
          (timer.active /\ Truthy(config["show_time_subtext"]))
    /\ menu.incEnabled = (ScaleOf(config) < MAX_SCALE)
    /\ menu.decEnabled = (ScaleOf(config) > MIN_SCALE)
    /\ menu.pauseEnabled = timer.running
    /\ menu.resetEnabled = timer.active

\* A tick has just finished the countdown at the largest scale: Pause and
\* Increase are disabled, Reset is enabled.
C24_Witness ==
    /\ lastTimerEvent = "tick"
    /\ prevTimer.running
    /\ timer.finished
    /\ ScaleOf(config) = MAX_SCALE
    /\ ~menu.pauseEnabled
    /\ ~menu.incEnabled
    /\ menu.resetEnabled
    /\ menu.cpuOn

\* C27: after start-up and after every event (menu action, timer action,
\* tick), every write having succeeded, the window and the content view
\* have the size computed from the scale and the visible lines, and the
\* subtext, network and system labels are shown exactly when (timer active
\* and show_time_subtext), show_network_stats and (show_cpu or show_mem or
\* show_gpu) hold.
C27_GeometryInSync ==
    /\ frame.w = windowSize(config, timer.active).w
    /\ frame.h = windowSize(config, timer.active).h
    /\ layout.w = frame.w
    /\ layout.h = frame.h
    /\ ~layout.subHidden = (timer.active /\ Truthy(config["show_time_subtext"]))
    /\ ~layout.netHidden = Truthy(config["show_network_stats"])
    /\ ~layout.sysHidden = \/ Truthy(config["show_cpu"])
                           \/ Truthy(config["show_mem"])
                           \/ Truthy(config["show_gpu"])

\* At scale 0.75 a tick has just finished a countdown started after the
\* network line was switched on: the subtext and network labels are shown
\* in a window 110 high.
C27_Witness ==
    /\ lastTimerEvent = "tick"
    /\ timer.finished
    /\ ScaleOf(config) = 75
    /\ ~layout.subHidden
    /\ ~layout.netHidden
    /\ layout.sysHidden
    /\ frame.h = 110
    /\ frame.w = 285

(***************************************************************************)
(* Properties of the timer's footprint, checked under SpecTimer.           *)
(***************************************************************************)
\* C26: a tick and a timer action (start from a preset, start from a typed
\* text, pause, reset: the steps that change the history of timer events)
\* change no field of the configuration and leave the persisted document
\* as it is; a tick changes neither the window's frame nor the layout, so
\* the same labels stay visible.
C26_TimerIsRuntimeOnly ==
    [][(timerGhost' # timerGhost \/ tickCount' # tickCount) =>
          /\ config' = config
          /\ disk' = disk
          /\ tickCount' # tickCount =>
                /\ frame' = frame
                /\ layout' = layout]_vars

\* A pause has just been handled in mid-countdown, after the network line
\* was switched on (which wrote the document).
C26_Witness ==
    /\ lastTimerEvent = "pause"
    /\ Running(prevTimer)
    /\ prevTimer.remaining < prevTimer.total
    /\ disk.kind = "object"
    /\ Truthy(config["show_network_stats"])
    /\ ~layout.netHidden

\* C25: flash_on changes only on ticks that begin with the timer already
\* Finished; the tick that takes remaining from 1 to 0 leaves flash_on true
\* and the main label fully visible.
C25_BlinkStartsAfterFinishingTick ==
    /\ (lastTimerEvent = "tick" /\ timer.flash_on # prevTimer.flash_on) =>
          Finished(prevTimer)
    /\ (lastTimerEvent = "tick" /\ Running(prevTimer)
          /\ prevTimer.remaining = 1) =>
          (timer.flash_on /\ mainAlpha = 1)

\* C29: in every state between events a timer that is not Finished has
\* flash_on true and a main label of alpha 1; the main label is invisible
\* only while the timer is Finished.
C29_HiddenOnlyWhileFinished ==
    /\ ~Finished(timer) => (timer.flash_on /\ mainAlpha = 1)
    /\ mainAlpha # 1 => Finished(timer)

\* A typed or preset start of MaxDur seconds has just replaced a finished
\* timer whose main label was blinked off, and the label is visible again.
C29_Witness ==
    /\ lastTimerEvent = "start"
    /\ requested = MaxDur
    /\ Finished(prevTimer)
    /\ prevAlpha = 0
    /\ ~Finished(timer)
    /\ timer.flash_on
    /\ mainAlpha = 1

(***************************************************************************)
(* Properties of the stored position, checked under SpecWindow.            *)
(***************************************************************************)
\* C28: whenever no drag is in progress and the configuration's position is
\* not None, the position equals the window's current origin.
C28_StoredPositionIsOrigin ==
    (proc = "running" /\ ~mousePressed /\ config["position"] # PyNone) =>
        config["position"] = PyList(<<frame.x2, frame.y2>>)

====
